---- MODULE Spec2Model ----
(***************************************************************************)
(* Model of the hpm-quote-tool pricing engine (quote_logic.py), the slot   *)
(* generator (google_calendar.py) and the availability / booking handlers  *)
(* (main.py).                                                              *)
(*                                                                         *)
(* Units.  Money is held in integer cents: every price of quote_logic.py   *)
(* is a whole multiple of $5, so the float arithmetic of the source is     *)
(* exact on the values modelled here.  Hours are held in twelfths of an    *)
(* hour while they are summed (0.25 h = 3, 1/3 h = 4, 0.5 h = 6, 1 h = 12) *)
(* and in hundredths of an hour once round(x, 2) has been applied.  Times  *)
(* of day are minutes after local midnight of the service date.            *)
(***************************************************************************)
EXTENDS Integers, Sequences, FiniteSets, TLC

VARIABLES
    req,        \* the request last submitted to calculate_quote
    quote,      \* what calculate_quote did with it
    TAX_CONFIG, \* the module-level TaxConfig instance of quote_logic.py
    results,    \* per request of the repeated-call pool, what the first call with it gave
    call,       \* the arguments and surroundings of one get_available_slots_for_date call
    pc,         \* where that call is: "idle", "call", "scan", "return", "raise"
    cursor,     \* its local cursor
    slots,      \* its local slots
    examined,   \* how many times its loop body has run
    busy,       \* its local busy_intervals, once get_busy_intervals has answered
    queries,    \* how many times it has queried the Busy-Interval Source
    env,        \* the process environment (STRIPE_SECRET_KEY, ADMIN_CAPTURE_TOKEN, APP_ENV)
    clock,      \* the current local time
    calendar,   \* the events of the Google calendar, in order of creation
    offered,    \* per client, the slots of its last /api/availability response
    resp,       \* the last response given: to which client, and which
    webhooks,   \* the booking webhook tasks queued so far
    payload,    \* the last request, where a specification keeps it to judge the answer
    admin_calls \* the Stripe API calls made for the last admin request

quoteVars == <<req, quote, TAX_CONFIG, results>>

scanVars == <<call, pc, cursor, slots, examined, busy, queries>>

bookVars == <<env, clock, calendar, offered, resp, webhooks, payload, admin_calls>>

vars == <<req, quote, TAX_CONFIG, results,
          call, pc, cursor, slots, examined, busy, queries,
          env, clock, calendar, offered, resp, webhooks, payload, admin_calls>>

(***************************************************************************)
(* Bounds of the model.                                                    *)
(***************************************************************************)
\* A request is built from the blank form by at most MaxEdits edits.
MaxEdits == 4

\* Largest picture_count of the picture-pricing specification.
MaxPictures == 9

\* Largest picture_large_count of the picture-pricing specification.
MaxLarge == 3

\* Longest list of busy intervals the Busy-Interval Source returns.
MaxBusy == 2

\* Calendar events the model lets the booking handler create.
MaxEvents == 2

\* Loop iterations of one scan the model follows (a scan whose cursor does not
\* move never ends; the model stops following it here).
MaxIters == 25

(***************************************************************************)
(* Small helpers.                                                          *)
(***************************************************************************)
\* The second argument passed through: max(0, x) without the clamp.
Unclamped(a, b) == b

Max(a, b) == IF a >= b THEN a ELSE b

Min(a, b) == IF a <= b THEN a ELSE b

\* math.ceil(n / d) for n >= 0, d > 0.
CeilDiv(n, d) == (n + d - 1) \div d

RECURSIVE SumSeq(_)
SumSeq(s) == IF s = <<>> THEN 0 ELSE Head(s) + SumSeq(Tail(s))

\* str.lower() on the spellings the model submits.
Lower(s) ==
    CASE s = "Brick" -> "brick"
      [] s = "In_Wall" -> "in_wall"
      [] OTHER -> s

\* str.strip() on the spellings the model submits.
Strip(s) == IF s \in {" ", "  "} THEN "" ELSE s

(***************************************************************************)
(* quote_logic.py: tax.  A rate is held in hundredths (0.06 = 6).          *)
(***************************************************************************)
\* TaxConfig(): the dataclass with its default default_rate = 0.06.
TaxConfig == [default_rate |-> 6]

determine_tax_rate(zip_code) ==
    LET zip_str == Strip(zip_code) IN
    IF zip_str = "" THEN TAX_CONFIG.default_rate
    ELSE TAX_CONFIG.default_rate

\* round(subtotal_before_tax * tax_rate, 2) is computed on binary64 floats.
\* A subtotal of the engine is a whole multiple of $5.00 (no discount) or of
\* $4.25 (15% off a multiple of $5.00); only an odd multiple of $4.25 gives a
\* product that lies exactly between two cents.  The float product of such a
\* subtotal with 0.06 (which is stored slightly below 0.06) lands just under
\* or just over that midpoint, and round(.., 2) follows it.  These are the
\* subtotals, in cents, up to $1700 whose product lands over the midpoint, as
\* CPython evaluates the expression of the source; on every other exact
\* midpoint the result is the lower cent.
TaxTiesRoundedUp ==
    {425, 1275, 9775, 10625, 15725, 16575, 17425, 23375, 24225,
     28475, 30175, 36125, 37825, 43775, 45475, 51425, 53125, 55675,
     59075, 61625, 65025, 67575, 70975, 76925, 80325, 82875, 86275,
     92225, 95625, 98175, 101575, 107525, 110075, 112625, 115175, 119425,
     121975, 124525, 128775, 131325, 133875, 136425, 138125, 140675, 143225,
     145775, 150025, 152575, 155125, 161925, 164475}

\* round(subtotal_before_tax * tax_rate, 2), in cents.
round_tax(subtotal_before_tax, tax_rate) ==
    LET product == subtotal_before_tax * tax_rate   \* in hundredths of a cent
    IN  IF product % 100 = 50
        THEN IF subtotal_before_tax \in TaxTiesRoundedUp
             THEN product \div 100 + 1
             ELSE product \div 100
        ELSE (product + 50) \div 100

(***************************************************************************)
(* quote_logic.py: per-category prices, in cents.                          *)
(***************************************************************************)
adjust_for_wall_type(base_price, wall_type) ==
    LET wt == Lower(wall_type) IN
    IF wt \in {"brick"} THEN base_price + 2000
    ELSE IF wt \in {"concrete", "stone", "tile", "tile/stone"} THEN base_price + 3000
    ELSE base_price

adjust_for_concealment(base_price, conceal_type) ==
    LET ct == Lower(conceal_type) IN
    IF ct \in {"on_wall", "on-wall", "raceway"} THEN base_price + 4000
    ELSE IF ct \in {"in_wall", "in-wall"} THEN base_price + 8000
    ELSE base_price

price_tv_addons(base_price, soundbar, led) ==
    base_price + (IF soundbar THEN 2000 ELSE 0) + (IF led THEN 1000 ELSE 0)

price_picture_hanging_base(picture_count) ==
    LET count == Max(0, picture_count) IN
    IF count = 0 THEN 0
    ELSE IF count <= 2 THEN 3000
    ELSE LET remaining == count - 2
             groups_after_two == (remaining + 2) \div 3
         IN 3000 * (1 + groups_after_two)

(***************************************************************************)
(* quote_logic.py: per-category hours, in twelfths of an hour.             *)
(***************************************************************************)
estimate_tv_hours(tv_count, tv_remove_count) ==
    Max(0, tv_count) * 12 + Max(0, tv_remove_count) * 3

estimate_picture_hours(picture_count) ==
    LET count == Max(0, picture_count) IN
    IF count = 0 THEN 0
    ELSE Max(12, 6 * CeilDiv(count, 3))

estimate_shelf_hours(shelves_count, shelves_remove_count) ==
    LET sc == Max(0, shelves_count)
        install_hours == IF sc > 0 THEN Max(12, 6 * CeilDiv(sc, 2)) ELSE 0
    IN install_hours + Max(0, shelves_remove_count) * 3

estimate_closet_hours(closet_shelf_count, closet_remove_count) ==
    LET cc == Max(0, closet_shelf_count)
        install_hours == IF cc > 0 THEN Max(12, 6 * cc) ELSE 0
    IN install_hours + Max(0, closet_remove_count) * 4

estimate_curtains_hours(decor_count, decor_remove_count) ==
    LET dc == Max(0, decor_count)
        install_hours == IF dc > 0 THEN Max(12, 6 * dc) ELSE 0
    IN install_hours + Max(0, decor_remove_count) * 4

\* round(h, 2) of h = h12 / 12 hours, in hundredths of an hour.  h12 * 100 / 12
\* has fractional part 0, 1/3 or 2/3, so no tie arises.
RoundHours(h12) == (h12 * 200 + 12) \div 24

(***************************************************************************)
(* quote_logic.py: calculate_quote.  The locals keep the source's names.   *)
(* The function builds its result at the return statement, which reads     *)
(* tv_size_val: that local is bound only on the legacy branch (no usable   *)
(* entry in tv_sizes), so with a non-empty tv_sizes_clean the call raises  *)
(* UnboundLocalError instead of returning.                                 *)
(***************************************************************************)
NoQuote == [outcome |-> "none"]

\* The base picture price with the groups of three rounded down.
picture_base_total_floor(pic_count) ==
    IF pic_count = 0 THEN 0
    ELSE 3000 + 3000 * (Max(0, pic_count - 2) \div 3)

\* calculate_quote, section 2: the base picture price of a clamped count,
\* 30.0 + 30.0 * math.ceil(max(0, pic_count - 2) / 3.0).
picture_base_total(pic_count) ==
    IF pic_count = 0 THEN 0
    ELSE LET blocks_after_two == Max(0, pic_count - 2)
             groups_of_three == CeilDiv(blocks_after_two, 3)
         IN 3000 + 3000 * groups_of_three

\* The decor install price at a flat per-item rate, without the minimum.
decor_labor_flat(decor_count) == 2000 * decor_count

\* calculate_quote, section 5: the decor install price of a clamped count.
decor_labor(decor_count) ==
    IF decor_count = 0 THEN 0
    ELSE Max(6000, 2000 * decor_count)

\* The discount given from three chargeable categories on.
discount_from_three(num_services, gross_before_discount) ==
    IF num_services >= 3 /\ gross_before_discount > 0
    THEN -((15 * gross_before_discount) \div 100)
    ELSE 0

\* calculate_quote, section 6: round(-0.15 * gross_before_discount, 2).  The
\* gross is a multiple of 500 cents, so 15% of it is a whole number of cents
\* and the rounding changes nothing.
discount(num_services, gross_before_discount) ==
    IF num_services >= 2 /\ gross_before_discount > 0
    THEN -((15 * gross_before_discount) \div 100)
    ELSE 0

\* Surcharges charged at quote time for the flags of the request.
quote_surcharges_charged(same_day, after_hours) ==
    [same_day_surcharge |-> IF same_day THEN 2500 ELSE 0,
     after_hours_surcharge |-> IF after_hours THEN 2500 ELSE 0]

\* calculate_quote, section 7: both surcharges are the literal 0.0.
quote_surcharges(same_day, after_hours) ==
    [same_day_surcharge |-> 0, after_hours_surcharge |-> 0]

calculate_quote(r) ==
    LET tv_sizes_clean == SelectSeq(r.tv_sizes, LAMBDA x : x > 0)
        tv_count == IF tv_sizes_clean # <<>> THEN Len(tv_sizes_clean)
                    ELSE Max(0, r.tv_count)
        tv_size_val == Max(0, r.tv_size)
        base_tv_price ==
            IF tv_sizes_clean # <<>>
            THEN SumSeq([i \in 1..Len(tv_sizes_clean) |->
                            IF tv_sizes_clean[i] < 60 THEN 6000 ELSE 7000])
            ELSE IF tv_size_val > 0 /\ tv_count > 0
                 THEN (IF tv_size_val < 60 THEN 6000 ELSE 7000) * tv_count
                 ELSE 0
        tv_with_wall == adjust_for_wall_type(base_tv_price, r.wall_type)
        tv_with_concealment == adjust_for_concealment(tv_with_wall, r.conceal_type)
        tv_with_addons == price_tv_addons(tv_with_concealment, r.soundbar, r.led)
        tv_remove_count == Max(0, r.tv_remove_count)
        tv_remove_total == tv_remove_count * 500
        tv_total == tv_with_addons + tv_remove_total
        \* 2) pictures
        pic_count == Max(0, r.picture_count)
        picture_base == picture_base_total(pic_count)
        picture_large_count == Max(0, r.picture_large_count)
        picture_large_total == IF picture_large_count > 0
                               THEN 1000 * CeilDiv(picture_large_count, 2)
                               ELSE 0
        picture_total == picture_base + picture_large_total
        \* 3) floating shelves
        shelf_count == Max(0, r.shelves_count)
        shelves_price == IF r.shelves /\ shelf_count > 0
                         THEN 6000 * CeilDiv(shelf_count, 2)
                         ELSE 0
        shelves_remove_count == Max(0, r.shelves_remove_count)
        shelves_remove_total == shelves_remove_count * 500
        shelves_total == shelves_price + shelves_remove_total
        \* 4) closet shelving
        closet_shelf_count == Max(0, r.closet_shelf_count)
        closet_labor_total ==
            IF r.closet_shelving /\ closet_shelf_count > 0
            THEN IF closet_shelf_count = 1 THEN 6000
                 ELSE 9000 + Max(0, closet_shelf_count - 2) * 3000
            ELSE 0
        closet_remove_count == Max(0, r.closet_remove_count)
        closet_remove_total == closet_remove_count * 1000
        closet_total == closet_labor_total + closet_remove_total
        \* 5) decor
        decor_count == Max(0, r.decor_count)
        decor_labor_total == decor_labor(decor_count)
        decor_remove_count == Max(0, r.decor_remove_count)
        decor_remove_total == decor_remove_count * 1000
        decor_total == decor_labor_total + decor_remove_total
        \* 6) multi-service discount
        service_subtotals ==
            <<tv_total, picture_total, shelves_total, closet_total, decor_total>>
        num_services == Cardinality({i \in 1..5 : service_subtotals[i] > 0})
        gross_before_discount == SumSeq(service_subtotals)
        multi_service_discount == discount(num_services, gross_before_discount)
        \* 7) surcharges stay 0 at quote time
        same_day_surcharge ==
            quote_surcharges(r.same_day, r.after_hours).same_day_surcharge
        after_hours_surcharge ==
            quote_surcharges(r.same_day, r.after_hours).after_hours_surcharge
        \* 8) subtotal and tax
        subtotal_before_tax ==
            tv_total + picture_total + shelves_total + closet_total + decor_total
            + multi_service_discount + same_day_surcharge + after_hours_surcharge
        tax_rate == determine_tax_rate(r.zip_code)
        tax_amount == round_tax(subtotal_before_tax, tax_rate)
        estimated_total_with_tax == subtotal_before_tax + tax_amount
        \* 9) hours: the raw counts go to the estimators, which clamp them
        tv_hours == estimate_tv_hours(tv_count, tv_remove_count)
        picture_hours == estimate_picture_hours(r.picture_count)
        shelf_hours == estimate_shelf_hours(r.shelves_count, shelves_remove_count)
        closet_hours == estimate_closet_hours(closet_shelf_count, closet_remove_count)
        curtains_hours == estimate_curtains_hours(decor_count, decor_remove_count)
        hours_sum == tv_hours + picture_hours + shelf_hours + closet_hours
                     + curtains_hours
        hours_floor == IF hours_sum <= 0 THEN 12 ELSE hours_sum
        estimated_hours == Min(hours_floor, 96)
    IN  IF tv_sizes_clean # <<>>
        THEN [outcome |-> "UnboundLocalError"]
        ELSE [outcome |-> "ok",
              line_items |->
                [tv_total |-> tv_total,
                 tv_remove_total |-> tv_remove_total,
                 picture_total |-> picture_total,
                 picture_large_total |-> picture_large_total,
                 shelves_total |-> shelves_total,
                 shelves_remove_total |-> shelves_remove_total,
                 closet_total |-> closet_total,
                 closet_remove_total |-> closet_remove_total,
                 decor_total |-> decor_total,
                 decor_remove_total |-> decor_remove_total,
                 multi_service_discount |-> multi_service_discount,
                 same_day_surcharge |-> same_day_surcharge,
                 after_hours_surcharge |-> after_hours_surcharge],
              subtotal_before_tax |-> subtotal_before_tax,
              tax_rate |-> tax_rate,
              tax_amount |-> tax_amount,
              estimated_total_with_tax |-> estimated_total_with_tax,
              num_services |-> num_services,
              estimated_hours |-> RoundHours(estimated_hours),
              decor_count |-> decor_count,
              picture_count |-> pic_count,
              picture_large_count |-> picture_large_count,
              tv_size |-> tv_size_val,
              tv_sizes |-> tv_sizes_clean,
              tv_count |-> tv_count,
              tv_remove_count |-> tv_remove_count,
              shelves_count |-> shelf_count,
              shelves_remove_count |-> shelves_remove_count,
              closet_shelf_count |-> closet_shelf_count,
              closet_remove_count |-> closet_remove_count,
              decor_remove_count |-> decor_remove_count]

(***************************************************************************)
(* The quote form.  BlankRequest holds the defaults of QuoteRequest and of *)
(* the /quote-html form fields; tv_sizes is the posted tv_sizes list.      *)
(***************************************************************************)
BlankRequest ==
    [tv_size |-> 0, tv_count |-> 0, tv_sizes |-> <<>>,
     wall_type |-> "drywall", conceal_type |-> "none",
     soundbar |-> FALSE, led |-> FALSE, tv_remove_count |-> 0,
     picture_count |-> 0, picture_large_count |-> 0,
     shelves |-> FALSE, shelves_count |-> 0, shelves_remove_count |-> 0,
     closet_shelving |-> FALSE, closet_shelf_count |-> 0, closet_remove_count |-> 0,
     decor_count |-> 0, decor_remove_count |-> 0,
     same_day |-> FALSE, after_hours |-> FALSE, zip_code |-> "20735"]

\* The requests of the repeated-call pool: the blank form, one item, two
\* categories with a discount, the legacy TV fields, a posted TV size, a wall
\* type alone and an empty ZIP.
RepeatPool ==
    {BlankRequest,
     [BlankRequest EXCEPT !.decor_count = 1],
     [BlankRequest EXCEPT !.picture_count = 3, !.shelves_remove_count = 1],
     [BlankRequest EXCEPT !.tv_size = 55, !.tv_count = 1],
     [BlankRequest EXCEPT !.tv_sizes = <<55>>],
     [BlankRequest EXCEPT !.wall_type = "brick"],
     [BlankRequest EXCEPT !.picture_count = 1, !.zip_code = ""]}

\* No call has been made with any request of the pool.
NoResults == [r \in RepeatPool |-> NoQuote]

\* The count fields a customer raises one item at a time.
CountFields ==
    {"tv_remove_count", "picture_count", "picture_large_count",
     "shelves_count", "shelves_remove_count", "closet_shelf_count",
     "closet_remove_count", "decor_count", "decor_remove_count"}

\* The option fields and the values the model submits for each.
OptionValues ==
    [wall_type |-> {"drywall", "brick", "Brick", "concrete", "stone", "tile"},
     conceal_type |-> {"none", "on_wall", "raceway", "in_wall"},
     soundbar |-> BOOLEAN, led |-> BOOLEAN,
     shelves |-> BOOLEAN, closet_shelving |-> BOOLEAN,
     tv_size |-> {0, 55, 65}, tv_count |-> {0, 1, 2, 9}]

OptionFields == DOMAIN OptionValues

\* The sizes a customer enters for one TV (0 is a size left blank).
TvSizes == {0, 55, 60}

\* How many edits away from the blank form a request is.
Edits(r) ==
    LET counts == [f \in CountFields |-> r[f]]
        RECURSIVE SumOver(_)
        SumOver(S) == IF S = {} THEN 0
                      ELSE LET f == CHOOSE x \in S : TRUE
                           IN counts[f] + SumOver(S \ {f})
    IN SumOver(CountFields) + Len(r.tv_sizes)
       + Cardinality({f \in OptionFields : r[f] # BlankRequest[f]})

(***************************************************************************)
(* Operations on the quote form: each submits the edited request and runs  *)
(* calculate_quote on it.                                                  *)
(***************************************************************************)
Quote(r) ==
    /\ req' = r
    /\ quote' = calculate_quote(r)
    /\ UNCHANGED <<TAX_CONFIG, results, scanVars, bookVars>>

\* The request is submitted as it stands.
Submit == Quote(req)

\* One more item of a category.
AddItem ==
    \E f \in CountFields :
        /\ Edits(req) < MaxEdits
        /\ Quote([req EXCEPT ![f] = @ + 1])

\* One more TV in the posted list of sizes.
AddTvSize ==
    \E size \in TvSizes :
        /\ Edits(req) < MaxEdits
        /\ Quote([req EXCEPT !.tv_sizes = Append(@, size)])

\* An option of the form is changed.
SetOption ==
    \E f \in OptionFields : \E v \in OptionValues[f] :
        /\ v # req[f]
        /\ Edits([req EXCEPT ![f] = v]) <= MaxEdits
        /\ Quote([req EXCEPT ![f] = v])

\* The local busy_intervals before get_busy_intervals has been called.
NotFetched == <<"not fetched">>

NoCall == [job_duration_min |-> 0, buffer_min |-> 0, hours |-> <<>>,
           blackout |-> FALSE, source |-> "ok", busy |-> <<>>, now |-> 0]

ScanIdle ==
    /\ call = NoCall
    /\ pc = "idle"
    /\ cursor = 0
    /\ slots = <<>>
    /\ examined = 0
    /\ busy = NotFetched
    /\ queries = 0

Clients == {"c1", "c2"}

NoResponse == [client |-> "none", kind |-> "none"]

NoRequest == [op |-> "none"]

BookIdle ==
    /\ env = [STRIPE_SECRET_KEY |-> "", ADMIN_CAPTURE_TOKEN |-> "", APP_ENV |-> ""]
    /\ clock = 0
    /\ calendar = <<>>
    /\ offered = [c \in Clients |-> <<>>]
    /\ resp = NoResponse
    /\ webhooks = <<>>
    /\ payload = NoRequest
    /\ admin_calls = <<>>

QuoteInit ==
    /\ req = BlankRequest
    /\ quote = NoQuote
    /\ TAX_CONFIG = TaxConfig
    /\ results = NoResults
    /\ ScanIdle
    /\ BookIdle

QuoteNext == Submit \/ AddItem \/ AddTvSize \/ SetOption

SpecQuote == QuoteInit /\ [][QuoteNext]_vars

(***************************************************************************)
(* config.py.  Times of day are minutes after local midnight.              *)
(***************************************************************************)
\* BUSINESS_HOURS: every weekday is (time(8, 0), time(19, 0)).
BUSINESS_HOURS == <<480, 1140>>

DEFAULT_JOB_DURATION_MIN == 120

DEFAULT_BUFFER_MIN == 30

\* dtime(18, 0), the after-hours threshold of the slot generator.
AfterHoursStart == 1080

MinutesPerDay == 1440

(***************************************************************************)
(* google_calendar.py: the slot generator.  An instant is a number of      *)
(* minutes after local midnight of the service date (negative: an earlier  *)
(* day; 1440 or more: a later day).  astimezone() keeps the instant, and   *)
(* aware datetimes compare by instant, so it does not appear here.         *)
(***************************************************************************)
_overlaps(a_start, a_end, b_start, b_end) ==
    Max(a_start, b_start) < Min(a_end, b_end)

\* The overlap test against the busy intervals as reported, not widened.
conflict_unbuffered(start, end, busy_intervals, buffer_delta) ==
    \E i \in DOMAIN busy_intervals :
        _overlaps(start, end, busy_intervals[i][1], busy_intervals[i][2])

\* The inner for loop: some busy interval, widened by the buffer on both
\* ends, overlaps [start, end].
conflict(start, end, busy_intervals, buffer_delta) ==
    \E i \in DOMAIN busy_intervals :
        LET b_start_buffered == busy_intervals[i][1] - buffer_delta
            b_end_buffered == busy_intervals[i][2] + buffer_delta
        IN _overlaps(start, end, b_start_buffered, b_end_buffered)

\* service_date == now_local.date()
is_same_day_today(now_local) == 0 <= now_local /\ now_local < MinutesPerDay

\* The slot dict with the after-hours flag for starts strictly after 18:00.
slot_after_six_strict(start, end, now_local) ==
    [start |-> start, end |-> end,
     is_same_day |-> is_same_day_today(now_local),
     is_after_hours |-> (start > AfterHoursStart)]

\* The slot dict appended for a surviving candidate.
slot(start, end, now_local) ==
    [start |-> start, end |-> end,
     is_same_day |-> is_same_day_today(now_local),
     is_after_hours |-> (start >= AfterHoursStart)]

\* The while body with only the first busy interval tested.
scan_body_first_busy_only(cur, found, c) ==
    LET start == cur
        end == cur + c.job_duration_min
    IN  IF end <= c.now THEN found
        ELSE IF conflict(start, end, SubSeq(c.busy, 1, Min(1, Len(c.busy))), c.buffer_min) THEN found
        ELSE Append(found, slot(start, end, c.now))

\* The while body with the past-slot test on `end < now`.
scan_body_end_before_now(cur, found, c) ==
    LET start == cur
        end == cur + c.job_duration_min
    IN  IF end < c.now THEN found
        ELSE IF conflict(start, end, c.busy, c.buffer_min) THEN found
        ELSE Append(found, slot(start, end, c.now))

\* One pass of the while body at `cur`: the slots list afterwards.
scan_body(cur, found, c) ==
    LET start == cur
        end == cur + c.job_duration_min
    IN  IF end <= c.now THEN found
        ELSE IF conflict(start, end, c.busy, c.buffer_min) THEN found
        ELSE Append(found, slot(start, end, c.now))

(***************************************************************************)
(* One call of get_available_slots_for_date, followed step by step.        *)
(***************************************************************************)
\* The entry with a failed freebusy query answered as "no slots".
Enter_masking_failure ==
    /\ pc = "call"
    /\ IF call.blackout \/ call.hours = <<>>
       THEN /\ pc' = "return"
            /\ UNCHANGED <<cursor, busy, queries>>
       ELSE /\ queries' = queries + 1
            /\ IF call.source = "error"
               THEN /\ pc' = "return"
                    /\ UNCHANGED <<cursor, busy>>
               ELSE /\ pc' = "scan"
                    /\ cursor' = call.hours[1]
                    /\ busy' = call.busy
    /\ slots' = <<>>
    /\ UNCHANGED <<call, examined, quoteVars, bookVars>>

\* The entry with the busy intervals fetched before the closed-day returns.
Enter_fetch_first ==
    /\ pc = "call"
    /\ queries' = queries + 1
    /\ IF call.source = "error"
       THEN /\ pc' = "raise"
            /\ UNCHANGED <<cursor, busy>>
       ELSE /\ busy' = call.busy
            /\ IF call.blackout \/ call.hours = <<>>
               THEN /\ pc' = "return"
                    /\ cursor' = cursor
               ELSE /\ pc' = "scan"
                    /\ cursor' = call.hours[1]
    /\ slots' = <<>>
    /\ UNCHANGED <<call, examined, quoteVars, bookVars>>

\* Entry up to the loop head: the blackout and closed-weekday returns, the
\* working window, the fetch of the busy intervals, cursor = day_start.  The
\* call of get_busy_intervals is in no try block: when the freebusy query
\* raises, the exception leaves get_available_slots_for_date (pc "raise").
Enter ==
    /\ pc = "call"
    /\ IF call.blackout \/ call.hours = <<>>
       THEN /\ pc' = "return"
            /\ UNCHANGED <<cursor, busy, queries>>
       ELSE /\ queries' = queries + 1
            /\ IF call.source = "error"
               THEN /\ pc' = "raise"
                    /\ UNCHANGED <<cursor, busy>>
               ELSE /\ pc' = "scan"
                    /\ cursor' = call.hours[1]
                    /\ busy' = call.busy
    /\ slots' = <<>>
    /\ UNCHANGED <<call, examined, quoteVars, bookVars>>

\* The loop with the cursor left in place when the candidate is not emitted.
Iterate_advance_on_emit ==
    /\ pc = "scan"
    /\ cursor + call.job_duration_min <= call.hours[2]
    /\ examined < MaxIters
    /\ slots' = scan_body(cursor, slots, [call EXCEPT !.busy = busy])
    /\ cursor' = IF slots' # slots THEN cursor + call.buffer_min ELSE cursor
    /\ examined' = examined + 1
    /\ UNCHANGED <<call, pc, busy, queries, quoteVars, bookVars>>

\* The loop with the condition on the start of the candidate, cursor <= day_end.
Iterate_start_in_window ==
    /\ pc = "scan"
    /\ cursor <= call.hours[2]
    /\ examined < MaxIters
    /\ slots' = scan_body(cursor, slots, [call EXCEPT !.busy = busy])
    /\ cursor' = cursor + call.buffer_min
    /\ examined' = examined + 1
    /\ UNCHANGED <<call, pc, busy, queries, quoteVars, bookVars>>

\* while cursor + job_delta <= day_end: one pass of the body.
Iterate ==
    /\ pc = "scan"
    /\ cursor + call.job_duration_min <= call.hours[2]
    /\ examined < MaxIters
    /\ slots' = scan_body(cursor, slots, [call EXCEPT !.busy = busy])
    /\ cursor' = cursor + call.buffer_min
    /\ examined' = examined + 1
    /\ UNCHANGED <<call, pc, busy, queries, quoteVars, bookVars>>

\* The loop condition fails: return slots.
Return ==
    /\ pc = "scan"
    /\ ~(cursor + call.job_duration_min <= call.hours[2])
    /\ pc' = "return"
    /\ UNCHANGED <<call, cursor, slots, examined, busy, queries, quoteVars, bookVars>>

\* The busy intervals the model's calendar reports.
BusyPool == {<<600, 660>>, <<480, 540>>, <<1005, 1020>>}

RECURSIVE SeqsUpTo(_, _)
SeqsUpTo(S, n) ==
    IF n = 0 THEN {<<>>}
    ELSE LET shorter == SeqsUpTo(S, n - 1)
         IN shorter \cup {Append(q, x) : q \in shorter, x \in S}

\* The calls the model makes: the configured defaults and the arguments and
\* configurations around them.
Calls ==
    [job_duration_min : {DEFAULT_JOB_DURATION_MIN, 0, 60, 720},
     buffer_min : {DEFAULT_BUFFER_MIN, 0, 60},
     hours : {BUSINESS_HOURS, <<>>, <<720, 480>>},
     blackout : BOOLEAN,
     source : {"ok", "error"},
     busy : SeqsUpTo(BusyPool, MaxBusy),
     now : {-60, 600, 1500}]

ScanInit ==
    /\ call \in Calls
    /\ pc = "call"
    /\ cursor = 0
    /\ slots = <<>>
    /\ examined = 0
    /\ busy = NotFetched
    /\ queries = 0
    /\ req = BlankRequest
    /\ quote = NoQuote
    /\ TAX_CONFIG = TaxConfig
    /\ results = NoResults
    /\ BookIdle

ScanNext == Enter \/ Iterate \/ Return

SpecScan == ScanInit /\ [][ScanNext]_vars

\* The call is synchronous: a step that can be taken is taken.
SpecScanFair == SpecScan /\ WF_vars(ScanNext)

(***************************************************************************)
(* google_calendar.py: get_available_slots_for_date as one call, for the   *)
(* handlers that use its result.  scan_loop is the while loop of Iterate   *)
(* and Return run to its end; the handlers call it with the configured     *)
(* buffer, which is positive.                                              *)
(***************************************************************************)
RECURSIVE scan_loop(_, _, _)
scan_loop(cur, found, c) ==
    IF cur + c.job_duration_min <= c.hours[2]
    THEN scan_loop(cur + c.buffer_min, scan_body(cur, found, c), c)
    ELSE found

get_available_slots_for_date(c) ==
    IF c.blackout \/ c.hours = <<>> THEN <<>>
    ELSE scan_loop(c.hours[1], <<>>, c)

\* The freebusy answer for the calendar: the interval of every event.
get_busy_intervals(cal) == [i \in DOMAIN cal |-> <<cal[i].start, cal[i].end>>]

\* create_booking_event's insert: the event is added, whatever the calendar holds.
create_booking_event(cal, start_dt, end_dt) ==
    Append(cal, [start |-> start_dt, end |-> end_dt])

(***************************************************************************)
(* main.py: text inputs.  A posted text is a record: kind "iso" with the   *)
(* instant it spells, or a text that does not parse, or the empty text.    *)
(***************************************************************************)
isoformat(t) == [kind |-> "iso", at |-> t]

BadText == [kind |-> "bad", at |-> 0]

EmptyText == [kind |-> "empty", at |-> 0]

\* datetime.fromisoformat / strptime: TRUE when the text parses.
parses(text) == text.kind = "iso"

(***************************************************************************)
(* main.py: validate_address, on the spellings the model posts.            *)
(***************************************************************************)
SERVICE_AREA_STATES == {"DC", "MD", "VA"}

Upper(s) == IF s = "md" THEN "MD" ELSE s

\* len(state) == 2 and state.isalpha()
TwoLetters(s) == s \in {"MD", "CA", "DC", "VA"}

\* ZIP_RE.match(zip_code)
ZipMatches(z) == z \in {"20735", "20001-1234"}

validate_address(a) ==
    LET street == Strip(a.street)
        city == Strip(a.city)
        state == Upper(Strip(a.state))
        zip_code == Strip(a.zip)
    IN  IF street = "" THEN FALSE
        ELSE IF city = "" THEN FALSE
        ELSE IF state = "" THEN FALSE
        ELSE IF zip_code = "" THEN FALSE
        ELSE IF ~TwoLetters(state) THEN FALSE
        ELSE IF ~ZipMatches(zip_code) THEN FALSE
        ELSE IF SERVICE_AREA_STATES # {} /\ state \notin SERVICE_AREA_STATES THEN FALSE
        ELSE TRUE

(***************************************************************************)
(* main.py: api_get_availability.                                          *)
(***************************************************************************)
api_get_availability(c, service_date) ==
    /\ IF ~parses(service_date)
       THEN /\ resp' = [client |-> c, kind |-> "availability_400"]
            /\ offered' = offered
       ELSE LET found == get_available_slots_for_date(
                            [job_duration_min |-> DEFAULT_JOB_DURATION_MIN,
                             buffer_min |-> DEFAULT_BUFFER_MIN,
                             hours |-> BUSINESS_HOURS,
                             blackout |-> FALSE,
                             busy |-> get_busy_intervals(calendar),
                             now |-> clock])
            IN /\ resp' = [client |-> c, kind |-> "availability_200"]
               /\ offered' = [offered EXCEPT ![c] = found]
    /\ UNCHANGED <<env, clock, calendar, webhooks, payload, admin_calls,
                   quoteVars, scanVars>>

(***************************************************************************)
(* main.py: submit_booking.  intent is what stripe.PaymentIntent.retrieve  *)
(* gives ("raise" when it throws, else the intent's status); gcal_ok is    *)
(* whether the calendar insert returns.                                    *)
(***************************************************************************)
\* Step 3: the event's length in minutes.  estimated_hours is posted in
\* hundredths of an hour; the values the model posts are whole minutes.
duration_minutes(estimated_hours) ==
    IF estimated_hours.given /\ estimated_hours.value > 0
    THEN (estimated_hours.value * 60) \div 100
    ELSE 120

\* The checks without the test of the retrieved intent's status.
booking_outcome_unverified_hold(form, intent, gcal_ok) ==
    LET start_text == IF form.time_slot.kind # "empty" THEN form.time_slot
                      ELSE form.appointment
        start_dt == start_text.at
        end_dt == start_dt + duration_minutes(form.estimated_hours)
        none == [start |-> 0, end |-> 0]
    IN  IF form.payment_intent_id = ""
        THEN [kind |-> "payment_missing_400", event |-> none]
        ELSE IF env.STRIPE_SECRET_KEY = ""
        THEN [kind |-> "not_configured_500", event |-> none]
        ELSE IF intent = "raise"
        THEN [kind |-> "verify_failed_400", event |-> none]
        ELSE IF ~validate_address(form.address)
        THEN [kind |-> "address_400", event |-> none]
        ELSE IF form.time_slot.kind # "empty" /\ ~parses(form.time_slot)
        THEN [kind |-> "bad_time_slot_400", event |-> none]
        ELSE IF form.time_slot.kind = "empty" /\ form.appointment.kind = "empty"
        THEN [kind |-> "missing_datetime_400", event |-> none]
        ELSE IF form.time_slot.kind = "empty" /\ ~parses(form.appointment)
        THEN [kind |-> "bad_datetime_400", event |-> none]
        ELSE IF ~gcal_ok
        THEN [kind |-> "calendar_error_500", event |-> none]
        ELSE [kind |-> "confirm_200", event |-> [start |-> start_dt, end |-> end_dt]]

\* The checks of the handler in their order: the response they end in, and
\* the event when they all pass.
booking_outcome(form, intent, gcal_ok) ==
    LET start_text == IF form.time_slot.kind # "empty" THEN form.time_slot
                      ELSE form.appointment
        start_dt == start_text.at
        end_dt == start_dt + duration_minutes(form.estimated_hours)
        none == [start |-> 0, end |-> 0]
    IN  IF form.payment_intent_id = ""
        THEN [kind |-> "payment_missing_400", event |-> none]
        ELSE IF env.STRIPE_SECRET_KEY = ""
        THEN [kind |-> "not_configured_500", event |-> none]
        ELSE IF intent = "raise"
        THEN [kind |-> "verify_failed_400", event |-> none]
        ELSE IF intent \notin {"requires_capture", "succeeded"}
        THEN [kind |-> "hold_incomplete_400", event |-> none]
        ELSE IF ~validate_address(form.address)
        THEN [kind |-> "address_400", event |-> none]
        ELSE IF form.time_slot.kind # "empty" /\ ~parses(form.time_slot)
        THEN [kind |-> "bad_time_slot_400", event |-> none]
        ELSE IF form.time_slot.kind = "empty" /\ form.appointment.kind = "empty"
        THEN [kind |-> "missing_datetime_400", event |-> none]
        ELSE IF form.time_slot.kind = "empty" /\ ~parses(form.appointment)
        THEN [kind |-> "bad_datetime_400", event |-> none]
        ELSE IF ~gcal_ok
        THEN [kind |-> "calendar_error_500", event |-> none]
        ELSE [kind |-> "confirm_200", event |-> [start |-> start_dt, end |-> end_dt]]

\* The handler with a re-check of the chosen window before the insert.
submit_booking_rechecked(c, form, intent, gcal_ok) ==
    LET out == booking_outcome(form, intent, gcal_ok)
        taken == /\ out.kind = "confirm_200"
                 /\ conflict(out.event.start, out.event.end,
                             get_busy_intervals(calendar), DEFAULT_BUFFER_MIN)
    IN  /\ Len(calendar) < MaxEvents
        /\ resp' = [client |-> c,
                    kind |-> IF taken THEN "slot_taken_409" ELSE out.kind]
        /\ IF out.kind = "confirm_200" /\ ~taken
           THEN /\ calendar' = create_booking_event(calendar, out.event.start,
                                                    out.event.end)
                /\ webhooks' = Append(webhooks, out.event)
           ELSE UNCHANGED <<calendar, webhooks>>
        /\ UNCHANGED <<env, clock, offered, admin_calls, quoteVars, scanVars>>

submit_booking(c, form, intent, gcal_ok) ==
    LET out == booking_outcome(form, intent, gcal_ok)
    IN  /\ Len(calendar) < MaxEvents
        /\ resp' = [client |-> c, kind |-> out.kind]
        /\ IF out.kind = "confirm_200"
           THEN /\ calendar' = create_booking_event(calendar, out.event.start,
                                                    out.event.end)
                /\ webhooks' = Append(webhooks, out.event)
           ELSE UNCHANGED <<calendar, webhooks>>
        /\ UNCHANGED <<env, clock, offered, admin_calls, quoteVars, scanVars>>

(***************************************************************************)
(* The booking flow: clients ask for a date's slots and post the form.     *)
(***************************************************************************)
GoodAddress == [street |-> "12 Main St", city |-> "Clinton", state |-> "md",
                zip |-> "20735"]

\* The estimated_hours the hidden input carries: absent, 0, and hours a quote
\* produces (1 h, 8 h).
HoursInputs ==
    {[given |-> FALSE, value |-> 0], [given |-> TRUE, value |-> 0],
     [given |-> TRUE, value |-> 100], [given |-> TRUE, value |-> 800]}

\* A form that passes every check, for an offered slot.
GoodForm(s, eh) ==
    [payment_intent_id |-> "pi_1", time_slot |-> isoformat(s.start),
     appointment |-> EmptyText, address |-> GoodAddress, estimated_hours |-> eh]

\* The same form with one thing wrong, or with the legacy date and time.
OtherForms(s, eh) ==
    LET g == GoodForm(s, eh) IN
    {[g EXCEPT !.payment_intent_id = ""],
     [g EXCEPT !.time_slot = BadText],
     [g EXCEPT !.time_slot = EmptyText],
     [g EXCEPT !.time_slot = EmptyText, !.appointment = BadText],
     [g EXCEPT !.time_slot = EmptyText, !.appointment = isoformat(s.start)],
     [g EXCEPT !.address.street = " "],
     [g EXCEPT !.address.state = "CA"],
     [g EXCEPT !.address.state = "Maryland"],
     [g EXCEPT !.address.zip = "2073A"]}

\* The slots a customer picks from a list: the earliest and the latest.
Picks(list) == IF list = <<>> THEN {} ELSE {list[1], list[Len(list)]}

Intents == {"requires_capture", "succeeded", "requires_payment_method", "raise"}

GetAvailability ==
    \E c \in Clients : \E d \in {isoformat(0), BadText} : api_get_availability(c, d)

SubmitBooking ==
    \E c \in Clients : \E s \in Picks(offered[c]) : \E eh \in HoursInputs :
        /\ \/ \E intent \in Intents : \E gcal_ok \in BOOLEAN :
                 submit_booking(c, GoodForm(s, eh), intent, gcal_ok)
           \/ \E form \in OtherForms(s, eh) :
                 submit_booking(c, form, "requires_capture", TRUE)
        /\ UNCHANGED payload

BookInit ==
    /\ env \in [STRIPE_SECRET_KEY : {"", "sk_live"}, ADMIN_CAPTURE_TOKEN : {""},
                APP_ENV : {""}]
    /\ clock \in {-60}
    /\ calendar = <<>>
    /\ offered = [c \in Clients |-> <<>>]
    /\ resp = NoResponse
    /\ webhooks = <<>>
    /\ payload = NoRequest
    /\ admin_calls = <<>>
    /\ req = BlankRequest
    /\ quote = NoQuote
    /\ TAX_CONFIG = TaxConfig
    /\ results = NoResults
    /\ ScanIdle

BookNext == GetAvailability \/ SubmitBooking

SpecBooking == BookInit /\ [][BookNext]_vars

(***************************************************************************)
(* submit_booking on forms with any mix of faults: the posted request is   *)
(* kept in payload so that the answer can be judged against it.            *)
(***************************************************************************)
SubmitForms ==
    [payment_intent_id : {"", "pi_1"},
     time_slot : {isoformat(600), BadText, EmptyText},
     appointment : {isoformat(720), BadText, EmptyText},
     address : {GoodAddress, [GoodAddress EXCEPT !.state = "CA"]},
     estimated_hours : {[given |-> TRUE, value |-> 100]}]

PostBooking ==
    \E form \in SubmitForms : \E intent \in Intents : \E gcal_ok \in BOOLEAN :
        /\ submit_booking("c1", form, intent, gcal_ok)
        /\ payload' = [op |-> "submit_booking", form |-> form, intent |-> intent,
                       gcal_ok |-> gcal_ok]

SubmitInit == BookInit

SubmitNext == PostBooking

SpecSubmit == SubmitInit /\ [][SubmitNext]_vars

(***************************************************************************)
(* The picture-pricing specification: requests over every picture count,   *)
(* with and without the other categories.                                  *)
(***************************************************************************)
PictureRequests ==
    {[BlankRequest EXCEPT !.picture_count = n, !.picture_large_count = l,
                          !.shelves = b[1], !.shelves_count = b[2],
                          !.decor_count = b[3], !.tv_remove_count = b[4]] :
        n \in 0..MaxPictures, l \in 0..MaxLarge,
        b \in BOOLEAN \X {0, 1} \X {0, 1} \X {0, 1}}

PictureInit ==
    /\ req \in PictureRequests
    /\ quote = NoQuote
    /\ TAX_CONFIG = TaxConfig
    /\ results = NoResults
    /\ ScanIdle
    /\ BookIdle

PictureNext == Submit

SpecPictures == PictureInit /\ [][PictureNext]_vars

(***************************************************************************)
(* The tax specification: requests over the ZIP codes a customer may post  *)
(* and over category mixes with and without the discount; the same_day and *)
(* after_hours boxes are then ticked and unticked.                         *)
(***************************************************************************)
\* Largest count of a category in the tax specification.
MaxTaxItems == 4

\* A mapped ZIP, the empty and blank ZIP, malformed ZIPs, an unmapped prefix.
ZipCodes == {"20735", "", "  ", "abc", "2073", "99999"}

TaxRequests ==
    {[BlankRequest EXCEPT !.zip_code = z, !.picture_count = n,
                          !.shelves_remove_count = m, !.decor_count = b[1],
                          !.tv_remove_count = b[2]] :
        z \in ZipCodes, n \in 0..MaxTaxItems, m \in 0..MaxTaxItems,
        b \in {0, 1} \X {0, 1}}

\* The same_day or the after_hours box is ticked or unticked.
SetFlag ==
    \/ Quote([req EXCEPT !.same_day = ~@])
    \/ Quote([req EXCEPT !.after_hours = ~@])

TaxInit ==
    /\ req \in TaxRequests
    /\ quote = NoQuote
    /\ TAX_CONFIG = TaxConfig
    /\ results = NoResults
    /\ ScanIdle
    /\ BookIdle

TaxNext == Submit \/ SetFlag

SpecTax == TaxInit /\ [][TaxNext]_vars

(***************************************************************************)
(* The clamping specification: counts are moved up and down from 0, below  *)
(* 0 included, and a negative count is replaced by 0.                      *)
(***************************************************************************)
\* A request is at most MaxSteps single steps of a count away from its start.
MaxSteps == 3

\* Every count of the request.
ClampFields == CountFields \cup {"tv_count"}

\* How many single steps the counts are away from 0.
Steps(r) ==
    LET RECURSIVE SumOver(_)
        SumOver(S) == IF S = {} THEN 0
                      ELSE LET f == CHOOSE x \in S : TRUE
                           IN (IF r[f] < 0 THEN -r[f] ELSE r[f]) + SumOver(S \ {f})
    IN SumOver(ClampFields)

\* One item more or one item fewer of a category.
StepItem ==
    \E f \in ClampFields : \E d \in {-1, 1} :
        /\ Steps([req EXCEPT ![f] = @ + d]) <= MaxSteps
        /\ Quote([req EXCEPT ![f] = @ + d])

\* A negative count is replaced by 0.
ZeroItem ==
    \E f \in ClampFields :
        /\ req[f] < 0
        /\ Quote([req EXCEPT ![f] = 0])

ClampInit ==
    /\ req \in {[BlankRequest EXCEPT !.tv_size = z, !.shelves = b,
                                     !.closet_shelving = b] :
                    z \in {0, 55}, b \in BOOLEAN}
    /\ quote = NoQuote
    /\ TAX_CONFIG = TaxConfig
    /\ results = NoResults
    /\ ScanIdle
    /\ BookIdle

ClampNext == Submit \/ StepItem \/ ZeroItem

SpecClamp == ClampInit /\ [][ClampNext]_vars

(***************************************************************************)
(* The repeated-call specification: calls with the requests of the pool in *)
(* any order, any number of times.                                         *)
(***************************************************************************)
\* A call that leaves a changed default rate behind in the module.
RepeatCall_rate_drift ==
    \E r \in RepeatPool :
        /\ req' = r
        /\ quote' = calculate_quote(r)
        /\ TAX_CONFIG' = [default_rate |-> IF TAX_CONFIG.default_rate = 6 THEN 7 ELSE 6]
        /\ results' = IF results[r] = NoQuote
                      THEN [results EXCEPT ![r] = calculate_quote(r)]
                      ELSE results
        /\ UNCHANGED <<scanVars, bookVars>>

\* One call of calculate_quote; results keeps what the first call with each
\* request returned.  The function assigns to no module-level name.
RepeatCall ==
    \E r \in RepeatPool :
        /\ req' = r
        /\ quote' = calculate_quote(r)
        /\ TAX_CONFIG' = TAX_CONFIG
        /\ results' = IF results[r] = NoQuote
                      THEN [results EXCEPT ![r] = calculate_quote(r)]
                      ELSE results
        /\ UNCHANGED <<scanVars, bookVars>>

RepeatInit == QuoteInit

RepeatNext == RepeatCall

SpecRepeat == RepeatInit /\ [][RepeatNext]_vars

(***************************************************************************)
(* The admin endpoints of main.py: capture_hold, cancel_hold,              *)
(* admin_create_invoice and admin_mark_invoice_paid.  A request is a dict  *)
(* (a record whose keys may be missing); admin_calls lists the Stripe API  *)
(* calls the handler made, a call that raised included.  `raises' is the   *)
(* position of the Stripe call that raises, 0 for none.                    *)
(***************************************************************************)
MaxRaise == 9

payload_get(p, key, default) == IF key \in DOMAIN p THEN p[key] ELSE default

ADMIN_CAPTURE_TOKEN == env.ADMIN_CAPTURE_TOKEN

Unauthorized == [client |-> "admin", kind |-> "unauthorized_401"]

capture_hold(p, raises) ==
    LET token == payload_get(p, "token", "")
        payment_intent_id == payload_get(p, "payment_intent_id", "")
    IN  /\ payload' = [op |-> "capture_hold", body |-> p]
        /\ IF token # ADMIN_CAPTURE_TOKEN
           THEN /\ resp' = Unauthorized
                /\ admin_calls' = <<>>
           ELSE /\ admin_calls' = <<"PaymentIntent.capture">>
                /\ resp' = [client |-> "admin",
                            kind |-> IF raises = 1 THEN "internal_500" ELSE "captured_200"]
        /\ UNCHANGED <<env, clock, calendar, offered, webhooks, quoteVars, scanVars>>

cancel_hold(p, raises) ==
    LET token == payload_get(p, "token", "")
        payment_intent_id == payload_get(p, "payment_intent_id", "")
    IN  /\ payload' = [op |-> "cancel_hold", body |-> p]
        /\ IF token # ADMIN_CAPTURE_TOKEN
           THEN /\ resp' = Unauthorized
                /\ admin_calls' = <<>>
           ELSE IF payment_intent_id = ""
           THEN /\ resp' = [client |-> "admin", kind |-> "missing_id_400"]
                /\ admin_calls' = <<>>
           ELSE /\ admin_calls' = <<"PaymentIntent.cancel">>
                /\ resp' = [client |-> "admin",
                            kind |-> IF raises = 1 THEN "cancel_failed_400" ELSE "canceled_200"]
        /\ UNCHANGED <<env, clock, calendar, offered, webhooks, quoteVars, scanVars>>

invoice_calls(force_new_customer, existing, payment_intent_id) ==
    (IF force_new_customer THEN <<"Customer.create">>
     ELSE IF existing THEN <<"Customer.list">>
     ELSE <<"Customer.list", "Customer.create">>)
    \o <<"InvoiceItem.create", "Invoice.create", "Invoice.finalize_invoice",
         "Invoice.retrieve">>
    \o (IF force_new_customer THEN <<>> ELSE <<"Invoice.send_invoice">>)
    \o <<"Invoice.retrieve">>
    \o (IF payment_intent_id # "" THEN <<"PaymentIntent.cancel">> ELSE <<>>)

admin_create_invoice(p, existing, raises) ==
    LET environment == IF Strip(env.APP_ENV) = "" THEN "prod" ELSE Strip(env.APP_ENV)
        force_new_customer == environment = "local"
        token == payload_get(p, "token", "")
        email == Strip(payload_get(p, "email", ""))
        amount_cents == payload_get(p, "amount_cents", 0)
        payment_intent_id == Strip(payload_get(p, "payment_intent_id", ""))
        calls == invoice_calls(force_new_customer, existing, payment_intent_id)
        \* the last call, the release of the hold, is inside a try
        guarded == IF payment_intent_id # "" THEN Len(calls) - 1 ELSE Len(calls)
    IN  /\ payload' = [op |-> "admin_create_invoice", body |-> p]
        /\ IF token # ADMIN_CAPTURE_TOKEN
           THEN /\ resp' = Unauthorized
                /\ admin_calls' = <<>>
           ELSE IF email = "" \/ amount_cents <= 0
           THEN /\ resp' = [client |-> "admin", kind |-> "missing_fields_400"]
                /\ admin_calls' = <<>>
           ELSE IF raises \in 1..guarded
           THEN /\ resp' = [client |-> "admin", kind |-> "internal_500"]
                /\ admin_calls' = SubSeq(calls, 1, raises)
           ELSE /\ resp' = [client |-> "admin", kind |-> "created_200"]
                /\ admin_calls' = calls
        /\ UNCHANGED <<env, clock, calendar, offered, webhooks, quoteVars, scanVars>>

admin_mark_invoice_paid(p, raises) ==
    LET token == payload_get(p, "token", "")
        invoice_id == Strip(payload_get(p, "invoice_id", ""))
    IN  /\ payload' = [op |-> "admin_mark_invoice_paid", body |-> p]
        /\ IF token # ADMIN_CAPTURE_TOKEN
           THEN /\ resp' = Unauthorized
                /\ admin_calls' = <<>>
           ELSE IF invoice_id = ""
           THEN /\ resp' = [client |-> "admin", kind |-> "missing_id_400"]
                /\ admin_calls' = <<>>
           ELSE /\ admin_calls' = <<"Invoice.pay">>
                /\ resp' = [client |-> "admin",
                            kind |-> IF raises = 1 THEN "mark_failed_400" ELSE "paid_200"]
        /\ UNCHANGED <<env, clock, calendar, offered, webhooks, quoteVars, scanVars>>

\* The requests posted: each body with the token key missing, empty, wrong
\* or equal to the secret the deployment may configure.
Tokens == {"", "wrong", "s3cret"}

WithToken(bodies) == bodies \cup {[token |-> t] @@ b : t \in Tokens, b \in bodies}

HoldBodies == WithToken([payment_intent_id : {"", "pi_1"}])

InvoiceBodies ==
    WithToken([email : {"", " ", "a@b.co"}, amount_cents : {0, 5000},
               payment_intent_id : {"", "pi_1"}])

PaidBodies == WithToken([invoice_id : {"", "in_1"}])

CaptureHold == \E p \in HoldBodies : \E raises \in 0..1 : capture_hold(p, raises)

CancelHold == \E p \in HoldBodies : \E raises \in 0..1 : cancel_hold(p, raises)

CreateInvoice ==
    \E p \in InvoiceBodies : \E existing \in BOOLEAN : \E raises \in 0..MaxRaise :
        admin_create_invoice(p, existing, raises)

MarkInvoicePaid ==
    \E p \in PaidBodies : \E raises \in 0..1 : admin_mark_invoice_paid(p, raises)

AdminInit ==
    /\ env \in [STRIPE_SECRET_KEY : {"sk_live"}, ADMIN_CAPTURE_TOKEN : {"", "s3cret"},
                APP_ENV : {"", "local"}]
    /\ clock = 0
    /\ calendar = <<>>
    /\ offered = [c \in Clients |-> <<>>]
    /\ resp = NoResponse
    /\ webhooks = <<>>
    /\ payload = NoRequest
    /\ admin_calls = <<>>
    /\ req = BlankRequest
    /\ quote = NoQuote
    /\ TAX_CONFIG = TaxConfig
    /\ results = NoResults
    /\ ScanIdle

AdminNext == CaptureHold \/ CancelHold \/ CreateInvoice \/ MarkInvoicePaid

SpecAdmin == AdminInit /\ [][AdminNext]_vars

(***************************************************************************)
(* main.py: the quote endpoints quote_html and get_quote, the booking URL  *)
(* they build, and show_booking_form, which reads the URL's flags back.    *)
(* The posted form is kept in payload, the answer in resp; a query         *)
(* parameter is the text "true" or "false", "None" when it is missing.     *)
(***************************************************************************)
result_get(result, key, default) == IF key \in DOMAIN result THEN result[key] ELSE default

\* service_flags of quote_html and get_quote, from the result dict.
service_flags_of(result) ==
    [tv |-> result_get(result, "tv_count", 0) > 0,
     pictures |-> \/ result_get(result, "picture_count", 0) > 0
                  \/ result_get(result, "picture_large_count", 0) > 0,
     shelves |-> result_get(result, "shelves_count", 0) > 0,
     closet |-> result_get(result, "closet_shelf_count", 0) > 0,
     decor |-> result_get(result, "curtains_count", 0) > 0]

build_booking_url(estimated_hours, service_flags) ==
    [path |-> "/book",
     hours |-> IF estimated_hours > 0 THEN estimated_hours ELSE 0,
     tv |-> IF service_flags.tv THEN "true" ELSE "false",
     pictures |-> IF service_flags.pictures THEN "true" ELSE "false",
     shelves |-> IF service_flags.shelves THEN "true" ELSE "false",
     closet |-> IF service_flags.closet THEN "true" ELSE "false",
     decor |-> IF service_flags.decor THEN "true" ELSE "false"]

\* The contact checks of quote_html: the first one that fails, or "ok".
contact_check(contact) ==
    IF Strip(contact.name) = "" THEN "name_400"
    ELSE IF ~contact.email_has_at THEN "email_400"
    ELSE IF contact.phone_digits < 10 THEN "phone_400"
    ELSE "ok"

quote_html(form) ==
    LET tv_count_val == form.tv_count
        tv_sizes_all == form.tv_sizes
        tv_sizes == SelectSeq(tv_sizes_all, LAMBDA v : v > 0)
        r == [tv_count |-> tv_count_val, tv_sizes |-> tv_sizes,
              picture_count |-> form.picture_count,
              picture_large_count |-> form.picture_large_count,
              shelves_count |-> form.shelves_count,
              closet_shelf_count |-> form.closet_shelf_count,
              decor_count |-> form.decor_count] @@ BlankRequest
        result == calculate_quote(r)
        rejected(kind) == /\ resp' = [client |-> "c1", kind |-> kind]
                          /\ UNCHANGED <<req, quote>>
    IN  /\ payload' = [op |-> "quote_html", form |-> form]
        /\ IF contact_check(form.contact) # "ok"
           THEN rejected(contact_check(form.contact))
           ELSE IF /\ tv_count_val > 0
                   /\ \/ Len(tv_sizes_all) # tv_count_val
                      \/ \E i \in DOMAIN tv_sizes_all : tv_sizes_all[i] <= 0
           THEN rejected("tv_sizes_400")
           ELSE /\ req' = r
                /\ quote' = result
                /\ resp' = IF result.outcome # "ok"
                           THEN [client |-> "c1", kind |-> "internal_500"]
                           ELSE [client |-> "c1", kind |-> "quote_result_200",
                                 booking_url |->
                                     build_booking_url(result.estimated_hours,
                                                       service_flags_of(result))]
        /\ UNCHANGED <<TAX_CONFIG, results, env, clock, calendar, offered, webhooks,
                       admin_calls, scanVars>>

\* calculate_quote(**request_data.dict()) passes contact_name, contact_phone
\* and contact_email, which calculate_quote does not accept.
get_quote(request_data) ==
    LET r == [f \in DOMAIN BlankRequest |-> request_data[f]]
        unexpected == DOMAIN request_data \ DOMAIN BlankRequest
        result == IF unexpected # {} THEN [outcome |-> "TypeError"]
                  ELSE calculate_quote(r)
    IN  /\ payload' = [op |-> "get_quote", form |-> request_data]
        /\ req' = r
        /\ quote' = result
        /\ resp' = IF result.outcome # "ok"
                   THEN [client |-> "c1", kind |-> "internal_500"]
                   ELSE [client |-> "c1", kind |-> "quote_200",
                         booking_url |->
                             build_booking_url(result.estimated_hours,
                                               service_flags_of(result))]
        /\ UNCHANGED <<TAX_CONFIG, results, env, clock, calendar, offered, webhooks,
                       admin_calls, scanVars>>

flag(value) == Lower(value) = "true"

ServiceNames ==
    <<"TV Mounting", "Picture & Art Hanging", "Floating Shelves", "Closet Shelving",
      "Curtains & Blinds">>

show_booking_form(query) ==
    LET service_flags ==
            [svc \in {ServiceNames[i] : i \in DOMAIN ServiceNames} |->
                CASE svc = "TV Mounting" -> flag(query.tv)
                  [] svc = "Picture & Art Hanging" -> flag(query.pictures)
                  [] svc = "Floating Shelves" -> flag(query.shelves)
                  [] svc = "Closet Shelving" -> flag(query.closet)
                  [] OTHER -> flag(query.decor)]
        services_this_visit == SelectSeq(ServiceNames, LAMBDA svc : service_flags[svc])
    IN  /\ payload' = [op |-> "show_booking_form", query |-> query]
        /\ resp' = [client |-> "c1", kind |-> "booking_form_200",
                    services_this_visit |-> services_this_visit,
                    num_services |-> IF services_this_visit = <<>> THEN 1
                                     ELSE Len(services_this_visit)]
        /\ UNCHANGED <<quoteVars, env, clock, calendar, offered, webhooks, admin_calls,
                       scanVars>>

\* The contact fields posted: complete, or with one of them unusable.
GoodContact == [name |-> "Ann", email_has_at |-> TRUE, phone_digits |-> 10]

BadContacts ==
    {[GoodContact EXCEPT !.name = " "],
     [GoodContact EXCEPT !.email_has_at = FALSE],
     [GoodContact EXCEPT !.phone_digits = 7]}

\* The forms posted to /quote-html: every mix of one item per category
\* without a TV, each way of filling in the TV fields with or without a
\* curtain, and a form of one curtain with each unusable contact.
QuoteForms ==
    [contact : {GoodContact}, tv_count : {0}, tv_sizes : {<<>>},
     picture_count : {0, 1}, picture_large_count : {0, 1},
     shelves_count : {0, 1}, closet_shelf_count : {0, 1}, decor_count : {0, 1}]
    \cup [contact : {GoodContact}, tv_count : {0, 1}, tv_sizes : {<<>>, <<0>>, <<55>>},
          picture_count : {0}, picture_large_count : {0},
          shelves_count : {0}, closet_shelf_count : {0}, decor_count : {0, 1}]
    \cup [contact : BadContacts, tv_count : {0}, tv_sizes : {<<>>},
          picture_count : {0}, picture_large_count : {0},
          shelves_count : {0}, closet_shelf_count : {0}, decor_count : {1}]

\* The bodies posted to /quote: QuoteRequest.dict() always carries the three
\* contact fields.
QuoteRequests ==
    {[contact_name |-> "Ann", contact_phone |-> "3015550100",
      contact_email |-> "a@b.co"] @@ [BlankRequest EXCEPT !.decor_count = d, !.picture_count = p]
        : d \in {0, 1}, p \in {0, 1}}

QuoteHtml == \E form \in QuoteForms : quote_html(form)

GetQuote == \E request_data \in QuoteRequests : get_quote(request_data)

\* The customer follows the booking link of the quote page.
FollowBookingUrl ==
    /\ "booking_url" \in DOMAIN resp
    /\ show_booking_form(resp.booking_url)

FormInit == BookInit

FormNext == QuoteHtml \/ GetQuote \/ FollowBookingUrl

SpecForm == FormInit /\ [][FormNext]_vars

(***************************************************************************)
(* Claims about calculate_quote.                                           *)
(***************************************************************************)
Returned == quote.outcome = "ok"

\* The surcharges as the documentation lists them.
WallSurcharge(w) ==
    CASE Lower(w) = "brick" -> 2000
      [] Lower(w) \in {"concrete", "stone", "tile"} -> 3000
      [] OTHER -> 0

ConcealSurcharge(c) ==
    CASE Lower(c) \in {"on_wall", "raceway"} -> 4000
      [] Lower(c) = "in_wall" -> 8000
      [] OTHER -> 0

ExpectedTvTotal(r) ==
    SumSeq([i \in 1..Len(r.tv_sizes) |-> IF r.tv_sizes[i] < 60 THEN 6000 ELSE 7000])
    + WallSurcharge(r.wall_type) + ConcealSurcharge(r.conceal_type)
    + (IF r.soundbar THEN 2000 ELSE 0) + (IF r.led THEN 1000 ELSE 0)
    + 500 * r.tv_remove_count

\* C1: for a request whose tv_sizes is non-empty with every size > 0,
\* calculate_quote returns a result with tv_count = len(tv_sizes) and tv_total =
\* the per-TV prices (60 under 60 inches, else 70) + the wall surcharge + the
\* concealment surcharge + 20 for a soundbar + 10 for LEDs + 5 per removal.
C1_TvTotalFromSizes ==
    (/\ quote # NoQuote
     /\ req.tv_sizes # <<>>
     /\ \A i \in 1..Len(req.tv_sizes) : req.tv_sizes[i] > 0)
    => /\ Returned
       /\ quote.tv_count = Len(req.tv_sizes)
       /\ quote.line_items.tv_total = ExpectedTvTotal(req)

\* C2: with no TV requested (no size in tv_sizes, tv_count = 0) and no TV
\* removal, the TV category total is 0 whatever wall_type, conceal_type,
\* soundbar and led are, and the TV category is not counted in num_services.
C2_NoTvNoCharge ==
    (/\ Returned
     /\ \A i \in 1..Len(req.tv_sizes) : req.tv_sizes[i] <= 0
     /\ req.tv_count = 0
     /\ req.tv_remove_count = 0)
    => /\ quote.line_items.tv_total = 0
       /\ quote.num_services =
            Cardinality({k \in {"picture_total", "shelves_total", "closet_total",
                                "decor_total"} : quote.line_items[k] > 0})

\* C6: the estimated_hours of every returned quote lies in [1.0, 8.0] hours.
C6_HoursInRange ==
    Returned => (100 <= quote.estimated_hours /\ quote.estimated_hours <= 800)

\* The request `b` is the request `a` with exactly one count raised.
RaisesOneCount(a, b) ==
    \E f \in CountFields \cup {"tv_count"} :
        /\ b[f] > a[f]
        /\ b = [a EXCEPT ![f] = b[f]]

\* C7: raising one count with everything else fixed never lowers
\* estimated_hours.
C7_HoursMonotonic ==
    [][(/\ Returned
        /\ quote'.outcome = "ok"
        /\ RaisesOneCount(req, req'))
       => quote'.estimated_hours >= quote.estimated_hours]_vars

\* C8: the shelves category total is 60 x ceil(shelves_count / 2) + 5 x
\* shelves_remove_count, whatever the other fields of the request are.
C8_ShelvesTotal ==
    (Returned /\ req.shelves_count >= 0 /\ req.shelves_remove_count >= 0)
    => quote.line_items.shelves_total =
         6000 * CeilDiv(req.shelves_count, 2) + 500 * req.shelves_remove_count

\* C9: the closet category total is install + 10 x closet_remove_count, with
\* install 0 for no shelf, 60 for one and 90 + 30 x (count - 2) from two on,
\* whatever the other fields of the request are.
C9_ClosetTotal ==
    (Returned /\ req.closet_shelf_count >= 0 /\ req.closet_remove_count >= 0)
    => quote.line_items.closet_total =
         (CASE req.closet_shelf_count = 0 -> 0
            [] req.closet_shelf_count = 1 -> 6000
            [] OTHER -> 9000 + 3000 * (req.closet_shelf_count - 2))
         + 1000 * req.closet_remove_count

\* The base picture price as the documentation states it, with its examples.
ExpectedPictureBase(n) ==
    CASE n = 2 -> 3000
      [] n = 3 -> 6000
      [] n = 8 -> 9000
      [] n = 9 -> 12000
      [] n <= 2 -> 3000
      [] OTHER -> 3000 + 3000 * (((n - 2) + 2) \div 3)

\* C10: for picture_count >= 1 the picture category total of a returned quote
\* is the base (30 for 1-2 items, 30 + 30 x ceil((count - 2) / 3) above) plus
\* 10 x ceil(picture_large_count / 2), and price_picture_hanging_base gives
\* the base that calculate_quote charges, for every count.
C10_PictureTotal ==
    Returned =>
      /\ req.picture_count >= 1 =>
           /\ quote.line_items.picture_total =
                ExpectedPictureBase(req.picture_count)
                + 1000 * CeilDiv(req.picture_large_count, 2)
           /\ price_picture_hanging_base(req.picture_count) =
                ExpectedPictureBase(req.picture_count)
      /\ price_picture_hanging_base(req.picture_count) =
           quote.line_items.picture_total - quote.line_items.picture_large_total

C10_Witness ==
    /\ Returned
    /\ req.picture_count = 9
    /\ req.picture_large_count = 3
    /\ quote.line_items.picture_total = 14000

(***************************************************************************)
(* Claims about the booking flow and the slot generator.                   *)
(***************************************************************************)
NoHours == [given |-> FALSE, value |-> 0]

\* C3: nothing excludes two bookings of one slot.  A slot a client was offered
\* stays bookable by that client whatever has been booked since: the booking
\* handler, given a form that passes its checks, confirms and inserts the
\* event for the offered start without looking at the calendar.
C3_OfferedSlotStaysBookable ==
    \A c \in Clients : \A i \in DOMAIN offered[c] :
        (Len(calendar) < MaxEvents /\ env.STRIPE_SECRET_KEY # "")
        => ENABLED (/\ submit_booking(c, GoodForm(offered[c][i], NoHours),
                                      "requires_capture", TRUE)
                    /\ resp' = [client |-> c, kind |-> "confirm_200"]
                    /\ calendar' = Append(calendar,
                                          [start |-> offered[c][i].start,
                                           end |-> offered[c][i].start + 120])
                    /\ UNCHANGED payload)

\* Both clients were offered one slot, and the calendar holds two overlapping
\* events that start at it.
C3_Witness ==
    /\ Len(calendar) = 2
    /\ calendar[1].start = calendar[2].start
    /\ _overlaps(calendar[1].start, calendar[1].end,
                 calendar[2].start, calendar[2].end)
    /\ \A c \in Clients :
          \E i \in DOMAIN offered[c] : offered[c][i].start = calendar[1].start
    /\ Len(webhooks) = 2

\* C4: no emitted slot strictly overlaps a busy interval widened by the buffer
\* on both ends.
C4_NoSlotInBufferedBusy ==
    \A i \in DOMAIN slots : \A j \in DOMAIN call.busy :
        ~(Max(slots[i].start, call.busy[j][1] - call.buffer_min)
            < Min(slots[i].end, call.busy[j][2] + call.buffer_min))

\* Busy 10:00-11:00 with a 30-minute buffer: the first slot offered starts at
\* 11:30, and the twelve slots from there to 17:00 are returned.
C4_Witness ==
    /\ pc = "return"
    /\ call.busy = <<<<600, 660>>>>
    /\ call.buffer_min = 30
    /\ call.job_duration_min = 120
    /\ call.now = -60
    /\ Len(slots) = 12
    /\ slots[1].start = 690

\* C5: a call with buffer_min = 0, job_duration_min <= 0 or close <= open ends
\* in an error before any scanning: it neither scans nor returns a slot list.
C5_BadConfigurationRejected ==
    (\/ call.buffer_min = 0
     \/ call.job_duration_min <= 0
     \/ (call.hours # <<>> /\ call.hours[2] <= call.hours[1]))
    => pc \notin {"scan", "return"}

(***************************************************************************)
(* Claims about the category totals, the discount and the tax.             *)
(***************************************************************************)
Categories == {"tv_total", "picture_total", "shelves_total", "closet_total",
               "decor_total"}

\* How many of the category totals in S a quote charges for.
Charged(q, S) == Cardinality({k \in S : q.line_items[k] > 0})

\* C11: with picture_count = 0 the picture category total is 0 for every
\* picture_large_count, so the picture category is not counted in num_services
\* and the discount is given only when two other categories are charged.
C11_NoPicturesNoCharge ==
    (Returned /\ req.picture_count = 0)
    => /\ quote.line_items.picture_total = 0
       /\ quote.num_services = Charged(quote, Categories \ {"picture_total"})
       /\ (quote.line_items.multi_service_discount # 0
             => Charged(quote, Categories \ {"picture_total"}) >= 2)

\* C12: the decor category total is install + 10 x decor_remove_count, with
\* install 0 for decor_count = 0 and max(60, 20 x decor_count) above.
C12_DecorTotal ==
    (Returned /\ req.decor_count >= 0 /\ req.decor_remove_count >= 0)
    => quote.line_items.decor_total =
         (CASE req.decor_count = 0 -> 0
            [] req.decor_count \in 1..3 -> 6000
            [] OTHER -> 2000 * req.decor_count)
         + 1000 * req.decor_remove_count

\* Four curtains: the per-item price passes the minimum.
C12_Witness ==
    /\ Returned
    /\ req.decor_count = 4
    /\ quote.line_items.decor_total = 8000

\* The sum of the five category totals of a quote.
GrossOf(q) ==
    q.line_items.tv_total + q.line_items.picture_total
    + q.line_items.shelves_total + q.line_items.closet_total
    + q.line_items.decor_total

\* C13: num_services is the number of the five category totals that are > 0;
\* multi_service_discount is -15% of the sum of the category totals when
\* num_services >= 2 and 0 otherwise.
C13_DiscountFromTwoServices ==
    Returned =>
      /\ quote.num_services = Charged(quote, Categories)
      /\ IF quote.num_services >= 2
         THEN 100 * quote.line_items.multi_service_discount = -15 * GrossOf(quote)
         ELSE quote.line_items.multi_service_discount = 0

\* Exactly two categories are charged and the discount is given.
C13_Witness ==
    /\ Returned
    /\ quote.num_services = 2
    /\ req.picture_count = 3
    /\ req.shelves_remove_count = 1
    /\ quote.line_items.multi_service_discount = -975

\* n / d rounded to the nearest integer, a half to the even neighbour.
RoundHalfEven(n, d) ==
    LET q == n \div d
        r == n % d
    IN  IF 2 * r > d \/ (2 * r = d /\ q % 2 = 1) THEN q + 1 ELSE q

\* C14: subtotal_before_tax is the sum of the five category totals plus the
\* discount; tax_rate is 0.06 for every ZIP code, empty, malformed and
\* unmapped ones included; tax_amount is subtotal x tax_rate rounded to the
\* cent; estimated_total_with_tax is subtotal + tax_amount.
C14_TaxFromSubtotal ==
    Returned =>
      /\ quote.subtotal_before_tax =
           GrossOf(quote) + quote.line_items.multi_service_discount
      /\ quote.tax_rate = 6
      /\ quote.tax_amount = RoundHalfEven(quote.subtotal_before_tax * 6, 100)
      /\ quote.estimated_total_with_tax =
           quote.subtotal_before_tax + quote.tax_amount

\* What a customer is quoted: the line items, subtotal, tax, total and hours.
Priced(q) ==
    [line_items |-> q.line_items,
     subtotal_before_tax |-> q.subtotal_before_tax,
     tax_amount |-> q.tax_amount,
     estimated_total_with_tax |-> q.estimated_total_with_tax,
     estimated_hours |-> q.estimated_hours]

\* The step replaces one negative count of the request by 0.
ZeroesOneCount ==
    \E f \in ClampFields :
        /\ req[f] < 0
        /\ req' = [req EXCEPT ![f] = 0]

\* C15: every category total of a returned quote is >= 0, negative counts in
\* the request included, and replacing a negative count by 0 changes nothing
\* of the line items, subtotal, tax, total and estimated_hours.
C15_NegativeCountsClamped ==
    /\ [](Returned => \A k \in Categories : quote.line_items[k] >= 0)
    /\ [][(Returned /\ quote'.outcome = "ok" /\ ZeroesOneCount)
           => Priced(quote') = Priced(quote)]_vars

\* A quote for a request with two negative counts next to a charged item.
C15_Witness ==
    /\ Returned
    /\ req.picture_count < 0
    /\ req.shelves_count < 0
    /\ req.decor_count = 1
    /\ quote.subtotal_before_tax = 6000

\* The step changes the same_day and after_hours flags of the request only.
ChangesFlagsOnly ==
    /\ req' # req
    /\ req' = [req EXCEPT !.same_day = req'.same_day,
                          !.after_hours = req'.after_hours]

\* C16: the same_day and after_hours flags do not reach the price: both
\* surcharge line items are 0 in every quote, and two requests that differ in
\* these flags only get the same line items, subtotal, tax, total and hours.
C16_FlagsNotPriced ==
    /\ [](Returned => /\ quote.line_items.same_day_surcharge = 0
                       /\ quote.line_items.after_hours_surcharge = 0)
    /\ [][(Returned /\ quote'.outcome = "ok" /\ ChangesFlagsOnly)
           => Priced(quote') = Priced(quote)]_vars

\* A priced request with both boxes ticked.
C16_Witness ==
    /\ Returned
    /\ req.same_day
    /\ req.after_hours
    /\ quote.subtotal_before_tax = 5525

\* C17: no call changes TAX_CONFIG, and a call returns what the first call
\* with the same arguments returned, whatever calls were made in between.
C17_CallsArePure ==
    /\ [][TAX_CONFIG' = TAX_CONFIG]_vars
    /\ [](quote # NoQuote => quote = results[req])

\* Every request of the pool has been priced, and the last call repeated one.
C17_Witness ==
    /\ \A r \in RepeatPool : results[r] # NoQuote
    /\ req = BlankRequest
    /\ quote = results[BlankRequest]
    /\ TAX_CONFIG = TaxConfig

(***************************************************************************)
(* Claims about the slots the generator returns.                           *)
(***************************************************************************)
\* C18: on a blackout date or a weekday without business hours the call
\* returns the empty list whatever the calendar holds, and returns before
\* the Busy-Interval Source is queried.
C18_ClosedDayReturnsEmpty ==
    (call.blackout \/ call.hours = <<>>)
    => /\ pc \in {"call", "return"}
       /\ slots = <<>>
       /\ busy = NotFetched

\* A blackout date with two bookings in the calendar: returned, nothing fetched.
C18_Witness ==
    /\ pc = "return"
    /\ call.blackout
    /\ call.hours = BUSINESS_HOURS
    /\ Len(call.busy) = 2
    /\ slots = <<>>
    /\ busy = NotFetched

\* C19: every emitted slot has day_start <= start and end = start +
\* job_duration <= day_end; a future date with hours 08:00-19:00, a 120-minute
\* job, a 30-minute buffer and no busy interval gets a first slot at 08:00 and
\* a last slot ending by 19:00; a job longer than close - open gets no slot.
C19_SlotsInsideWindow ==
    /\ \A i \in DOMAIN slots :
          /\ call.hours[1] <= slots[i].start
          /\ slots[i].end = slots[i].start + call.job_duration_min
          /\ slots[i].end <= call.hours[2]
    /\ (/\ pc = "return"
        /\ ~call.blackout
        /\ call.hours = <<480, 1140>>
        /\ call.job_duration_min = 120
        /\ call.buffer_min = 30
        /\ call.busy = <<>>
        /\ call.now < 0)
       => /\ slots # <<>>
          /\ slots[1].start = 480
          /\ slots[Len(slots)].end <= 1140
    /\ (/\ call.hours # <<>>
        /\ call.job_duration_min > call.hours[2] - call.hours[1])
       => slots = <<>>

\* The default day: nineteen slots, 08:00 first, the last one 17:00-19:00.
C19_Witness ==
    /\ pc = "return"
    /\ call.job_duration_min = 120
    /\ call.buffer_min = 30
    /\ call.busy = <<>>
    /\ call.now < 0
    /\ Len(slots) = 19
    /\ slots[1].start = 480
    /\ slots[19].end = 1140

\* C20: no emitted slot ends at or before the current local time: on the
\* current day a candidate whose end is at or before now is rejected, and a
\* past date gets no slot.
C20_NoPastSlot ==
    /\ \A i \in DOMAIN slots : slots[i].end > call.now
    /\ call.now >= MinutesPerDay => slots = <<>>

\* Today at 10:00: the 08:00-10:00 candidate is rejected, 08:30-10:30 is the
\* first slot.
C20_Witness ==
    /\ pc = "return"
    /\ call.now = 600
    /\ call.job_duration_min = 120
    /\ call.buffer_min = 30
    /\ call.busy = <<>>
    /\ Len(slots) = 18
    /\ slots[1].start = 510
    /\ slots[1].is_same_day

(***************************************************************************)
(* Claims about the scan: the source query, termination, the list returned *)
(* and the flags of a slot.                                                *)
(***************************************************************************)
OpenDay == ~call.blackout /\ call.hours # <<>>

\* C21: on an open, non-blackout day a call queries the Busy-Interval Source
\* exactly once; when the query fails the call ends with the failure, with
\* no second query and without returning a slot list.
C21_OneQueryFailurePropagated ==
    /\ queries <= 1
    /\ (OpenDay /\ pc \in {"scan", "return", "raise"}) => queries = 1
    /\ (OpenDay /\ call.source = "error")
       => /\ pc \in {"call", "raise"}
          /\ slots = <<>>
          /\ busy = NotFetched
    /\ pc = "raise" => (OpenDay /\ call.source = "error")

\* The freebusy query failed on an open day with bookings: the call raised.
C21_Witness ==
    /\ pc = "raise"
    /\ queries = 1
    /\ call.hours = BUSINESS_HOURS
    /\ call.source = "error"
    /\ Len(call.busy) = 2

\* The configurations the termination claim is about.
ValidConfig ==
    /\ call.buffer_min > 0
    /\ call.job_duration_min > 0
    /\ call.hours # <<>>
    /\ call.hours[1] < call.hours[2]

\* floor((close - open - job_duration) / buffer) + 1
CandidateBound ==
    (call.hours[2] - call.hours[1] - call.job_duration_min) \div call.buffer_min + 1

\* Every pass of the loop moves the cursor by exactly buffer.
CursorStepsByBuffer ==
    [][examined' # examined
       => (examined' = examined + 1 /\ cursor' = cursor + call.buffer_min)]_vars

\* C22: for buffer > 0, job_duration > 0 and open < close the scan
\* terminates: the cursor advances by exactly buffer on every iteration and
\* at most floor((close - open - job_duration) / buffer) + 1 candidates are
\* examined.
C22_ScanTerminates ==
    /\ [](ValidConfig => examined <= CandidateBound)
    /\ CursorStepsByBuffer
    /\ (ValidConfig ~> pc \in {"return", "raise"})

\* C22, amended: as C22, with the number of candidates examined at most
\* max(0, floor((close - open - job_duration) / buffer) + 1); the bound of
\* C22 is negative for a job longer than close - open + buffer.
C22_ScanTerminatesWithinBound ==
    /\ [](ValidConfig => examined <= Max(0, CandidateBound))
    /\ CursorStepsByBuffer
    /\ (ValidConfig ~> pc \in {"return", "raise"})

\* A scan at 10:00 of the day with one booking: a candidate skipped as past,
\* candidates rejected for the conflict, candidates emitted, nineteen passes.
C22_Witness ==
    /\ pc = "return"
    /\ call.job_duration_min = 120
    /\ call.buffer_min = 30
    /\ call.hours = BUSINESS_HOURS
    /\ call.now = 600
    /\ call.busy = <<<<1005, 1020>>>>
    /\ examined = 19
    /\ cursor = 1050
    /\ slots # <<>>
    /\ Len(slots) < 18

\* The starts the scan must return: day_start + k x buffer whose candidate
\* ends by day_end and after now and overlaps no buffer-expanded busy interval.
ExpectedStarts ==
    {t \in {call.hours[1] + k * call.buffer_min :
              k \in 0..((call.hours[2] - call.hours[1]) \div call.buffer_min)} :
        /\ t + call.job_duration_min <= call.hours[2]
        /\ t + call.job_duration_min > call.now
        /\ \A j \in DOMAIN call.busy :
              ~(Max(t, call.busy[j][1] - call.buffer_min)
                  < Min(t + call.job_duration_min, call.busy[j][2] + call.buffer_min))}

Reverse(q) == [i \in 1..Len(q) |-> q[Len(q) + 1 - i]]

\* C23: the list returned is, in strictly increasing order of start, exactly
\* the candidates day_start + k x buffer that end by day_end and after now
\* and overlap no buffer-expanded busy interval: none missing, none twice,
\* and the same list for the busy intervals in the opposite order.
C23_ExactlyTheFreeCandidates ==
    (pc = "return" /\ OpenDay /\ call.buffer_min > 0)
    => /\ \A i \in 1..(Len(slots) - 1) : slots[i].start < slots[i + 1].start
       /\ {slots[i].start : i \in DOMAIN slots} = ExpectedStarts
       /\ \A i \in DOMAIN slots :
             slots[i].end = slots[i].start + call.job_duration_min
       /\ slots = get_available_slots_for_date(
                     [call EXCEPT !.busy = Reverse(call.busy)])

\* Two bookings, supplied later one first: the slots between and around them.
C23_Witness ==
    /\ pc = "return"
    /\ call.busy = <<<<1005, 1020>>, <<480, 540>>>>
    /\ call.job_duration_min = 120
    /\ call.buffer_min = 30
    /\ call.now < 0
    /\ Len(slots) = 10
    /\ slots[1].start = 570
    /\ slots[10].start = 840

\* C24: every emitted slot has is_same_day = TRUE exactly when the service
\* date is today's local date, and is_after_hours = TRUE exactly when its
\* start is at or after 18:00.
C24_SlotFlags ==
    \A i \in DOMAIN slots :
        /\ slots[i].is_same_day = (0 <= call.now /\ call.now < 1440)
        /\ slots[i].is_after_hours = (slots[i].start >= 1080)

\* One-hour jobs today: the last slot starts at 18:00 and is after hours.
C24_Witness ==
    /\ pc = "return"
    /\ call.job_duration_min = 60
    /\ call.now = 600
    /\ slots # <<>>
    /\ slots[Len(slots)].start = 1080
    /\ slots[Len(slots)].is_after_hours
    /\ slots[Len(slots)].is_same_day
    /\ ~slots[1].is_after_hours

\* C28: every slot offered for the current day starts at or after the
\* current local time.
C28_NoSlotAlreadyBegun ==
    (0 <= call.now /\ call.now < 1440)
    => \A i \in DOMAIN slots : slots[i].start >= call.now

(***************************************************************************)
(* Claims about the hours of a quote and the event they size.              *)
(***************************************************************************)
\* C25: estimated_hours is the clamped sum of the category hours rounded to
\* one decimal place: a whole multiple of 0.1 hour in every returned quote.
C25_HoursToOneDecimal ==
    Returned => quote.estimated_hours % 10 = 0

\* What /api/availability answers for the date with the calendar as it is.
SlotsOfferedNow ==
    get_available_slots_for_date(
        [job_duration_min |-> DEFAULT_JOB_DURATION_MIN,
         buffer_min |-> DEFAULT_BUFFER_MIN,
         hours |-> BUSINESS_HOURS,
         blackout |-> FALSE,
         busy |-> get_busy_intervals(calendar),
         now |-> clock])

\* C26: an event created for a start that the availability API offers lies
\* inside what the availability check validated: it ends at or before the
\* closing time and overlaps no buffer-expanded busy interval, whatever
\* estimated_hours the form carries.
C26_EventInsideOfferedWindow ==
    [][(/\ calendar' # calendar
        /\ \E i \in DOMAIN SlotsOfferedNow :
              SlotsOfferedNow[i].start = calendar'[Len(calendar')].start)
       => LET event == calendar'[Len(calendar')] IN
          /\ event.end <= BUSINESS_HOURS[2]
          /\ ~conflict(event.start, event.end, get_busy_intervals(calendar),
                       DEFAULT_BUFFER_MIN)]_vars

(***************************************************************************)
(* C27: no admin operation (capture_hold, cancel_hold,                     *)
(* admin_create_invoice, admin_mark_invoice_paid) makes a Stripe call      *)
(* unless the request carries a token equal to a configured, non-empty     *)
(* ADMIN_CAPTURE_TOKEN; with ADMIN_CAPTURE_TOKEN unset, a request whose    *)
(* token is missing or empty is answered 401 and makes no Stripe call.     *)
(***************************************************************************)
C27_AdminNeedsConfiguredToken ==
    payload.op \in {"capture_hold", "cancel_hold", "admin_create_invoice",
                    "admin_mark_invoice_paid"}
    => /\ admin_calls # <<>>
          => /\ "token" \in DOMAIN payload.body
             /\ ADMIN_CAPTURE_TOKEN # ""
             /\ payload.body.token = ADMIN_CAPTURE_TOKEN
       /\ (ADMIN_CAPTURE_TOKEN = "" /\ payload_get(payload.body, "token", "") = "")
          => (resp = Unauthorized /\ admin_calls = <<>>)

(***************************************************************************)
(* C29: submit_booking creates the calendar event and queues the webhook   *)
(* only after, in this order, a payment_intent_id is present, Stripe is    *)
(* configured, the intent is retrieved with status requires_capture or     *)
(* succeeded, the address validates and the start time parses; a request   *)
(* that fails a check ends with that check's error response and produces   *)
(* neither an event nor a webhook task, and the webhook is queued only     *)
(* when the event creation returned.                                       *)
(***************************************************************************)
StartParses(form) ==
    IF form.time_slot.kind # "empty" THEN parses(form.time_slot)
    ELSE form.appointment.kind # "empty" /\ parses(form.appointment)

FirstFailure(p) ==
    IF p.form.payment_intent_id = "" THEN "payment"
    ELSE IF env.STRIPE_SECRET_KEY = "" THEN "stripe"
    ELSE IF p.intent \notin {"requires_capture", "succeeded"} THEN "hold"
    ELSE IF ~validate_address(p.form.address) THEN "address"
    ELSE IF ~StartParses(p.form) THEN "start"
    ELSE IF ~p.gcal_ok THEN "calendar"
    ELSE "none"

ErrorsOf(check) ==
    CASE check = "payment" -> {"payment_missing_400"}
      [] check = "stripe" -> {"not_configured_500"}
      [] check = "hold" -> {"verify_failed_400", "hold_incomplete_400"}
      [] check = "address" -> {"address_400"}
      [] check = "start" -> {"bad_time_slot_400", "missing_datetime_400",
                             "bad_datetime_400"}
      [] check = "calendar" -> {"calendar_error_500"}
      [] OTHER -> {"confirm_200"}

C29_ChecksBeforeBooking ==
    /\ [](payload.op = "submit_booking" => resp.kind \in ErrorsOf(FirstFailure(payload)))
    /\ [][(calendar' # calendar \/ webhooks' # webhooks)
          => /\ FirstFailure(payload') = "none"
             /\ Len(calendar') = Len(calendar) + 1
             /\ webhooks' = Append(webhooks, calendar'[Len(calendar')])]_vars
    /\ [][(payload'.op = "submit_booking" /\ FirstFailure(payload') # "none")
          => (calendar' = calendar /\ webhooks' = webhooks)]_vars

C29_Witness ==
    /\ payload.op = "submit_booking"
    /\ resp.kind = "hold_incomplete_400"
    /\ Len(calendar) = 1
    /\ Len(webhooks) = 1

(***************************************************************************)
(* C30: the service flags that quote_html and get_quote put into the       *)
(* booking URL match the quote: each of tv, pictures, shelves, closet and  *)
(* decor is true exactly when the quote holds a positive count for that    *)
(* category, and the booking form opened from the URL of a quote with      *)
(* decor_count > 0 lists Curtains & Blinds among the services.             *)
(***************************************************************************)
C30_FlagsMatchQuote ==
    /\ "booking_url" \in DOMAIN resp
       => /\ Returned
          /\ resp.booking_url.tv = "true" <=> quote.tv_count > 0
          /\ resp.booking_url.pictures = "true"
                <=> (quote.picture_count > 0 \/ quote.picture_large_count > 0)
          /\ resp.booking_url.shelves = "true" <=> quote.shelves_count > 0
          /\ resp.booking_url.closet = "true" <=> quote.closet_shelf_count > 0
          /\ resp.booking_url.decor = "true" <=> quote.decor_count > 0
    /\ (resp.kind = "booking_form_200" /\ Returned /\ quote.decor_count > 0)
       => \E i \in DOMAIN resp.services_this_visit :
             resp.services_this_visit[i] = "Curtains & Blinds"

====
